---- MODULE Spec2Model ----
(***************************************************************************)
(* Model of Scine::UI::HapticDeviceManager (haptic/src/openhaptics.cpp):   *)
(* the servicing-loop callback updateDeviceCallback, the scene mutators,   *)
(* the listener registry and the device lifecycle.                         *)
(*                                                                         *)
(* Numbers.  The code computes in double.  The model computes in fixed     *)
(* point: a device-native coordinate d is the integer d * DevOne, an       *)
(* application coordinate a is the integer a * AppOne.  The input sets     *)
(* hold values on which every product, quotient and square root the code   *)
(* forms is exact in both arithmetics.  sqrt is monotone, so comparisons   *)
(* of distances are made on the squared distances.                         *)
(***************************************************************************)
EXTENDS Integers, Sequences, FiniteSets, TLC

(***************************************************************************)
(* Bounds of the model.                                                    *)
(***************************************************************************)
MaxTicks == 3
MaxAtoms == 2
MaxListeners == 2
MaxInits == 2
\* ticks of a behaviour in which the calls are interleaved statement by statement
MaxConcTicks == 1
\* the longest gradient handed to setForce on its own, in steps of GradientStep
MaxGradientSteps == 4
\* values in a flat list handed to update_gradient
MaxValues == 6

(***************************************************************************)
(* Fixed-point units and program constants.                                *)
(***************************************************************************)
scale_factor == 10
\* device units per 1.0, application units per 1.0 (both powers of ten, so that
\* 1.2 and the division by scale_factor are exact)
DevOne == 2 * 5
AppOne == DevOne * scale_factor
HD_DEVICE_BUTTON_1 == 1
HD_DEVICE_BUTTON_2 == 2
HD_INVALID_HANDLE == 0
kMaxEventsPerSecond == 60
kMinDelay == 1000000 \div kMaxEventsPerSecond
CaptureFactor == 3
ZoomThreshold == 12
ZoomOut == 90
ZoomIn == 110
ZoomNone == 100
AnchorStiffness == 8
force_clamp == 30

Zero3 == <<0, 0, 0>>
Identity4 == << <<1, 0, 0, 0>>, <<0, 1, 0, 0>>, <<0, 0, 1, 0>>, <<0, 0, 0, 1>> >>

(***************************************************************************)
(* Utilities.                                                              *)
(***************************************************************************)
\* x & mask for a one-bit mask
BitAnd(x, mask) == ((x \div mask) % 2) * mask

\* largest r with r * r <= n
RECURSIVE ISqrtFrom(_, _)
ISqrtFrom(n, r) == IF (r + 1) * (r + 1) > n THEN r ELSE ISqrtFrom(n, r + 1)

ISqrt(n) == ISqrtFrom(n, 0)

\* one row of the affine map: m[r] . (v, 1)
AffineRow(m, r, v) == m[r][1] * v[1] + m[r][2] * v[2] + m[r][3] * v[3] + m[r][4]

\* HapticData(x / scale_factor, ...): a device-unit number divided by the
\* scale, as an application-unit number
DivScale(x, sf) == (x * AppOne) \div (DevOne * sf)

\* x * scale_factor: an application-unit number times the scale, as a
\* device-unit number
MulScale(x, sf) == (x * sf * DevOne) \div AppOne

transformToAppCoordinates(pos, tm, sf) ==
    << DivScale(AffineRow(tm, 1, pos), sf),
       DivScale(AffineRow(tm, 2, pos), sf),
       DivScale(AffineRow(tm, 3, pos), sf) >>

transformToHapticCoordinates(x, y, z, im, sf) ==
    LET v == << MulScale(x, sf), MulScale(y, sf), MulScale(z, sf) >>
    IN  << AffineRow(im, 1, v), AffineRow(im, 2, v), AffineRow(im, 3, v) >>

\* the square of calculateDistance(atom, data)
calculateDistanceSq(atom, data) ==
    (atom.x - data[1]) * (atom.x - data[1])
    + (atom.y - data[2]) * (atom.y - data[2])
    + (atom.z - data[3]) * (atom.z - data[3])

\* (mutation: d <= best_d, so that the last of several closest atoms wins)
ClosestStep_last(st, i, d) == IF st[1] = -1 \/ d <= st[2] THEN <<i, d>> ELSE st

\* one pass of the loop body of findClosestAtomIndex: st = <<closest_atom_index, best_d>>
\* (indices are 0-based as in the code; best_d is kept squared)
ClosestStep(st, i, d) == IF st[1] = -1 \/ d < st[2] THEN <<i, d>> ELSE st

RECURSIVE ClosestScan(_, _, _, _)
ClosestScan(mol, data, i, st) ==
    IF i >= Len(mol) THEN st
    ELSE ClosestScan(mol, data, i + 1,
                     ClosestStep(st, i, calculateDistanceSq(mol[i + 1], data)))

findClosestAtomIndex(mol, data) == ClosestScan(mol, data, 0, <<-1, -1>>)[1]

\* (mutation: strict comparison with the capture threshold)
WithinCapture_strict(atom, data) ==
    /\ atom.distance >= 0
    /\ calculateDistanceSq(atom, data)
         < CaptureFactor * CaptureFactor * atom.distance * atom.distance

\* calculateDistance(closest_atom, data) <= 3. * closest_atom.getDistance()
WithinCapture(atom, data) ==
    /\ atom.distance >= 0
    /\ calculateDistanceSq(atom, data)
         <= CaptureFactor * CaptureFactor * atom.distance * atom.distance

\* selected_atom_id < gradients.size(): the int is converted to size_t, so a
\* negative id compares as a value above every size
IdBelowSize(id, size) == id >= 0 /\ id < size

hduVecSubtract(a, b) == << a[1] - b[1], a[2] - b[2], a[3] - b[3] >>

hduVecMagnitudeSq(v) == v[1] * v[1] + v[2] * v[2] + v[3] * v[3]

\* hduVecScaleInPlace by the rational num / den
hduVecScale(v, num, den) ==
    << (v[1] * num) \div den, (v[2] * num) \div den, (v[3] * num) \div den >>

\* (mutation: the force is scaled and not clamped)
scaleForce_unclamped(force, stiffness) == hduVecScale(force, stiffness, 10)

\* scaleForce(force, anchor_stiffness), anchor_stiffness in tenths
scaleForce(force, stiffness) ==
    LET f == hduVecScale(force, stiffness, 10)
    IN  IF hduVecMagnitudeSq(f) > force_clamp * force_clamp
        THEN hduVecScale(f, force_clamp, ISqrt(hduVecMagnitudeSq(f)))
        ELSE f

\* the vector setForce hands to hdSetDoublev(HD_CURRENT_FORCE, force)
setForce(atom_pos, atom_gradient, calc, sbd) ==
    IF calc /\ sbd
    THEN LET new_pos == hduVecSubtract(atom_pos, atom_gradient)
         IN  scaleForce(hduVecSubtract(new_pos, atom_pos), AnchorStiffness)
    ELSE Zero3

calculateAzimuth(position, last_position) == last_position[1] - position[1]

calculateElevation(position, last_position) == last_position[2] - position[2]

\* (mutation: strict comparisons with the threshold)
calculateZoom_strict(position, last_position) ==
    IF last_position[3] - position[3] < -ZoomThreshold THEN ZoomOut
    ELSE IF last_position[3] - position[3] > ZoomThreshold THEN ZoomIn
    ELSE ZoomNone

calculateZoom(position, last_position) ==
    IF last_position[3] - position[3] <= -ZoomThreshold THEN ZoomOut
    ELSE IF last_position[3] - position[3] >= ZoomThreshold THEN ZoomIn
    ELSE ZoomNone

(***************************************************************************)
(* Input sets.                                                             *)
(***************************************************************************)
\* device-native positions the hardware reports (HD_CURRENT_POSITION)
Positions == { <<0, 0, 0>>, <<0, 0, 12>>, <<30, -5, 11>> }

\* button bitmasks the hardware reports (HD_CURRENT_BUTTONS)
Buttons == 0 .. 3

\* time between two readings of steady_clock::now(), in microseconds
Delays == { 1, kMinDelay - 1 }

\* the clock reading when the manager is constructed
StartTime == 2 * kMinDelay

Atom(id, x, y, z, dis) == [id |-> id, x |-> x, y |-> y, z |-> z, distance |-> dis]

AtomSet == { Atom(0, 0, 0, 0, 4), Atom(1, 0, 0, 12, 0) }

\* flat gradient lists handed to update_gradient
GradLists == { <<50, 0, 0>>, <<0, 25, 0, 30, 40, 0>> }

Translate(dx) == << <<1, 0, 0, dx>>, <<0, 1, 0, 0>>, <<0, 0, 1, 0>>, <<0, 0, 0, 1>> >>

DropZ == << <<1, 0, 0, 0>>, <<0, 1, 0, 0>>, <<0, 0, 0, 0>>, <<0, 0, 0, 1>> >>

Flatten(m) == m[1] \o m[2] \o m[3] \o m[4]

\* (t_matrix, i_matrix) list pairs handed to set_transformation_matrix
MatrixPairs ==
    { <<Flatten(Identity4), Flatten(Identity4)>>,
      <<Flatten(Translate(30)), Flatten(Translate(-30))>>,
      <<Flatten(DropZ), Flatten(Identity4)>> }

Listeners == { 1, 2 }


(***************************************************************************)
(* State.                                                                  *)
(***************************************************************************)
VARIABLES
    \* fields of HapticDeviceManager
    ghHD, hUpdateDeviceCallback, calc_gradient_in_loop, first_button_down,
    second_button_down, call_first_time, last_send_data, transformation_matrix,
    invert_matrix, gradient, callbacks, molecule, last_event_timestamp,
    \* the hardware runtime and the process
    hw_open, scheduled, scheduler_running, hw_last_position, hw_last_buttons,
    clock, alive,
    \* bookkeeping of the model: calls and ticks made so far
    ninits, nticks,
    \* observations: the last operation's outcome, and per-registration logs
    obs, hist, notes,
    \* threads: the holder of each mutex, each thread's position in its call
    \* and its locals, and the scene as the last completed mutator call left it
    mutex, pc, loc, committed

mgr == << ghHD, hUpdateDeviceCallback, calc_gradient_in_loop, first_button_down,
          second_button_down, call_first_time, last_send_data,
          transformation_matrix, invert_matrix, gradient, callbacks, molecule,
          last_event_timestamp >>

hw == << hw_open, scheduled, scheduler_running, hw_last_position,
         hw_last_buttons, clock, alive >>

conc == << mutex, pc, loc, committed >>

vars == << mgr, hw, ninits, nticks, obs, hist, notes, conc >>

\* the servicing-loop thread of the hardware scheduler and the application
\* threads that call the mutators
LoopThread == "loop"

AppThreads == { "app1", "app2" }

Threads == AppThreads \cup { LoopThread }

NoThread == "none"

Mutexes == { "molecule", "gradient", "matrix" }

NoLocals == [op |-> "none"]

NoObs == [op |-> "none"]

\* hist is what the model remembers of the calls made so far: the time and
\* position of the last tick that passed the throttle, the time of the last
\* move notification, the scheduler handle under which the last tick ran and
\* the list of the last completed update_gradient; None is "no time yet"
None == 0 - 1

\* the state after construction, but for the atom list
InitRest ==
    /\ ghHD = HD_INVALID_HANDLE
    /\ hUpdateDeviceCallback = HD_INVALID_HANDLE
    /\ calc_gradient_in_loop = FALSE
    /\ first_button_down = FALSE
    /\ second_button_down = FALSE
    /\ call_first_time = TRUE
    /\ last_send_data = Zero3
    /\ transformation_matrix = Identity4
    /\ invert_matrix = Identity4
    /\ gradient = <<>>
    /\ callbacks = <<>>
    /\ last_event_timestamp = 0
    /\ hw_open = FALSE
    /\ scheduled = {}
    /\ scheduler_running = FALSE
    /\ hw_last_position = Zero3
    /\ hw_last_buttons = 0
    /\ clock = StartTime
    /\ alive = TRUE
    /\ ninits = 0
    /\ nticks = 0
    /\ obs = NoObs
    /\ hist = [pass_time |-> None, pass_pos |-> Zero3, move_time |-> None,
               session |-> HD_INVALID_HANDLE, gradient_list |-> <<>>]
    /\ notes = <<>>
    /\ mutex = [m \in Mutexes |-> NoThread]
    /\ pc = [t \in Threads |-> "idle"]
    /\ loc = [t \in Threads |-> NoLocals]
    /\ committed = [molecule |-> <<>>, matrix |-> <<Identity4, Identity4>>,
                    gradient |-> <<>>]

Init == molecule = <<>> /\ InitRest

(***************************************************************************)
(* Scene mutators and listener registration.                               *)
(***************************************************************************)
\* (mutation: the table is resized to the rows of the list)
GrowGradient_resize(g, n) ==
    [i \in 1 .. (n \div 3) |-> IF i <= Len(g) THEN g[i] ELSE Zero3]

\* rows the growth loop of update_gradient appends for a list of n values
GrowGradient(g, n) ==
    IF n \div 3 > Len(g) THEN g \o [i \in 1 .. (n \div 3 - Len(g)) |-> Zero3] ELSE g

\* the rows gradient[index / 3] the write loop of update_gradient touches for
\* a list, counted from 0
RowsWritten(list) == { index \div 3 : index \in 0 .. Len(list) - 1 }

\* the write loop of update_gradient from position index on; a write to a
\* row the table does not have lands outside the table
RECURSIVE WriteGradient(_, _, _)
WriteGradient(g, list, index) ==
    IF index >= Len(list) THEN g
    ELSE WriteGradient(
             IF index \div 3 < Len(g)
             THEN [g EXCEPT ![(index \div 3) + 1][(index % 3) + 1] = list[index + 1]]
             ELSE g,
             list, index + 1)

\* the write loop of set_transformation_matrix for one matrix
RECURSIVE WriteMatrix(_, _, _)
WriteMatrix(m, list, index) ==
    IF index >= Len(list) THEN m
    ELSE WriteMatrix(
             [m EXCEPT ![(index \div 4) + 1][(index % 4) + 1] = list[index + 1]],
             list, index + 1)

clear_molecule ==
    /\ alive
    /\ molecule' = <<>>
    /\ obs' = NoObs
    /\ UNCHANGED << ghHD, hUpdateDeviceCallback, calc_gradient_in_loop,
                    first_button_down, second_button_down, call_first_time,
                    last_send_data, transformation_matrix, invert_matrix,
                    gradient, callbacks, last_event_timestamp >>
    /\ UNCHANGED << hw, ninits, nticks, hist, notes, conc >>

add_atom(atom) ==
    /\ alive
    /\ Len(molecule) < MaxAtoms
    /\ molecule' = Append(molecule, atom)
    /\ obs' = NoObs
    /\ UNCHANGED << ghHD, hUpdateDeviceCallback, calc_gradient_in_loop,
                    first_button_down, second_button_down, call_first_time,
                    last_send_data, transformation_matrix, invert_matrix,
                    gradient, callbacks, last_event_timestamp >>
    /\ UNCHANGED << hw, ninits, nticks, hist, notes, conc >>

\* molecule[atom.getId()] = atom; an id that is no index of the vector is
\* undefined behaviour and is not called here
update_atom(atom) ==
    /\ alive
    /\ atom.id >= 0 /\ atom.id < Len(molecule)
    /\ molecule' = [molecule EXCEPT ![atom.id + 1] = atom]
    /\ obs' = [op |-> "update_atom", atom |-> atom, pre |-> molecule]
    /\ UNCHANGED << ghHD, hUpdateDeviceCallback, calc_gradient_in_loop,
                    first_button_down, second_button_down, call_first_time,
                    last_send_data, transformation_matrix, invert_matrix,
                    gradient, callbacks, last_event_timestamp >>
    /\ UNCHANGED << hw, ninits, nticks, hist, notes, conc >>

set_calc_gradient_in_loop(gradient_in_loop) ==
    /\ alive
    /\ calc_gradient_in_loop' = gradient_in_loop
    /\ obs' = NoObs
    /\ UNCHANGED << ghHD, hUpdateDeviceCallback, first_button_down,
                    second_button_down, call_first_time, last_send_data,
                    transformation_matrix, invert_matrix, gradient, callbacks,
                    molecule, last_event_timestamp >>
    /\ UNCHANGED << hw, ninits, nticks, hist, notes, conc >>

\* the table is grown to Len(gradient_list) / 3 rows and every value of the
\* list is written to row index / 3.  A write to a row the table does not
\* have is undefined behaviour: the process ends there, or it goes on with
\* the writes that fell inside the table
update_gradient(gradient_list) ==
    LET grown == GrowGradient(gradient, Len(gradient_list))
        rows == RowsWritten(gradient_list)
    IN  /\ alive
        /\ gradient' = WriteGradient(grown, gradient_list, 0)
        /\ IF \A r \in rows : r < Len(grown)
           THEN alive' = alive
           ELSE alive' \in BOOLEAN
        /\ obs' = [op |-> "update_gradient", list |-> gradient_list,
                   size |-> Len(grown), rows |-> rows]
        /\ hist' = [hist EXCEPT !.gradient_list = gradient_list]
        /\ UNCHANGED << ghHD, hUpdateDeviceCallback, calc_gradient_in_loop,
                        first_button_down, second_button_down, call_first_time,
                        last_send_data, transformation_matrix, invert_matrix,
                        callbacks, molecule, last_event_timestamp >>
        /\ UNCHANGED << hw_open, scheduled, scheduler_running, hw_last_position,
                        hw_last_buttons, clock, ninits, nticks, notes, conc >>

set_transformation_matrix(t_matrix, i_matrix) ==
    /\ alive
    /\ Len(t_matrix) <= 16 /\ Len(i_matrix) <= 16
    /\ transformation_matrix' = WriteMatrix(transformation_matrix, t_matrix, 0)
    /\ invert_matrix' = WriteMatrix(invert_matrix, i_matrix, 0)
    /\ obs' = NoObs
    /\ UNCHANGED << ghHD, hUpdateDeviceCallback, calc_gradient_in_loop,
                    first_button_down, second_button_down, call_first_time,
                    last_send_data, gradient, callbacks, molecule,
                    last_event_timestamp >>
    /\ UNCHANGED << hw, ninits, nticks, hist, notes, conc >>

\* the log the model keeps for a registration made while the buttons read b
\* (samples: the button masks the hardware reported, from the one before the
\* registration on; first, second: the button calls the listener received)
NewNotes(b) == [first |-> <<>>, second |-> <<>>, samples |-> <<b>>]

add_haptic_callback(callback) ==
    /\ alive
    /\ Len(callbacks) < MaxListeners
    /\ callbacks' = Append(callbacks, callback)
    /\ notes' = Append(notes, NewNotes(hw_last_buttons))
    /\ obs' = NoObs
    /\ UNCHANGED << ghHD, hUpdateDeviceCallback, calc_gradient_in_loop,
                    first_button_down, second_button_down, call_first_time,
                    last_send_data, transformation_matrix, invert_matrix,
                    gradient, molecule, last_event_timestamp >>
    /\ UNCHANGED << hw, ninits, nticks, hist, conc >>

(***************************************************************************)
(* Device lifecycle.  The hardware runtime is outside the repository: a    *)
(* call of it either succeeds or reports an error, hdInitDevice reports    *)
(* one for a device that is already open, and hdUnschedule of a handle     *)
(* that is not scheduled changes nothing.                                  *)
(***************************************************************************)
init_haptic_device(open_error, start_error) ==
    /\ alive
    /\ ninits < MaxInits
    /\ ninits' = ninits + 1
    /\ IF open_error \/ hw_open
       THEN /\ ghHD' = HD_INVALID_HANDLE
            /\ obs' = [op |-> "init", ret |-> FALSE]
            /\ UNCHANGED << hUpdateDeviceCallback, hw_open, scheduled,
                            scheduler_running >>
       ELSE /\ ghHD' = ninits + 1
            /\ hw_open' = TRUE
            /\ hUpdateDeviceCallback' = ninits + 1
            /\ scheduled' = scheduled \cup {ninits + 1}
            /\ scheduler_running' = ~start_error
            /\ obs' = [op |-> "init", ret |-> ~start_error]
    /\ UNCHANGED << calc_gradient_in_loop, first_button_down, second_button_down,
                    call_first_time, last_send_data, transformation_matrix,
                    invert_matrix, gradient, callbacks, molecule,
                    last_event_timestamp >>
    /\ UNCHANGED << hw_last_position, hw_last_buttons, clock, alive, nticks,
                    hist, notes, conc >>

\* (mutation: the scheduler is stopped and the callback unscheduled only
\* under the test of ghHD)
exit_haptic_device_guarded ==
    /\ alive
    /\ pc[LoopThread] = "idle"
    /\ IF ghHD # HD_INVALID_HANDLE
       THEN /\ scheduler_running' = FALSE
            /\ scheduled' = scheduled \ {hUpdateDeviceCallback}
            /\ hw_open' = FALSE
            /\ ghHD' = HD_INVALID_HANDLE
       ELSE UNCHANGED << scheduler_running, scheduled, hw_open, ghHD >>
    /\ obs' = [op |-> "exit",
               active |-> hw_open \/ scheduler_running \/ scheduled # {},
               unscheduled |-> hUpdateDeviceCallback,
               was_scheduled |-> hUpdateDeviceCallback \in scheduled,
               pre |-> mgr]
    /\ UNCHANGED << hUpdateDeviceCallback, calc_gradient_in_loop,
                    first_button_down, second_button_down, call_first_time,
                    last_send_data, transformation_matrix, invert_matrix,
                    gradient, callbacks, molecule, last_event_timestamp >>
    /\ UNCHANGED << hw_last_position, hw_last_buttons, clock, alive, ninits,
                    nticks, hist, notes, conc >>

\* hdStopScheduler returns once the callback in progress has returned
exit_haptic_device ==
    /\ alive
    /\ pc[LoopThread] = "idle"
    /\ scheduler_running' = FALSE
    /\ scheduled' = scheduled \ {hUpdateDeviceCallback}
    /\ IF ghHD # HD_INVALID_HANDLE
       THEN hw_open' = FALSE /\ ghHD' = HD_INVALID_HANDLE
       ELSE UNCHANGED << hw_open, ghHD >>
    /\ obs' = [op |-> "exit",
               \* a session was active: device open, scheduler running or a
               \* callback scheduled
               active |-> hw_open \/ scheduler_running \/ scheduled # {},
               \* the handle passed to hdUnschedule, and whether it was
               \* scheduled
               unscheduled |-> hUpdateDeviceCallback,
               was_scheduled |-> hUpdateDeviceCallback \in scheduled,
               pre |-> mgr]
    /\ UNCHANGED << hUpdateDeviceCallback, calc_gradient_in_loop,
                    first_button_down, second_button_down, call_first_time,
                    last_send_data, transformation_matrix, invert_matrix,
                    gradient, callbacks, molecule, last_event_timestamp >>
    /\ UNCHANGED << hw_last_position, hw_last_buttons, clock, alive, ninits,
                    nticks, hist, notes, conc >>

(***************************************************************************)
(* The servicing loop: one invocation of updateDeviceCallback.             *)
(***************************************************************************)
\* the atom findClosestAtomIndex picks (the caller has checked size() > 0)
ClosestAtom(mol, data) == mol[findClosestAtomIndex(mol, data) + 1]

\* selected_atom_id after the if (molecule.size() > 0) block
SelectedAtomId(mol, data) ==
    IF Len(mol) > 0 /\ WithinCapture(ClosestAtom(mol, data), data)
    THEN ClosestAtom(mol, data).id
    ELSE -1

\* the local gradient after the lookup in the snapshot of the table
SelectedGradient(mol, data, grads) ==
    IF /\ WithinCapture(ClosestAtom(mol, data), data)
       /\ IdBelowSize(ClosestAtom(mol, data).id, Len(grads))
    THEN grads[ClosestAtom(mol, data).id + 1]
    ELSE Zero3

\* the forces the tick writes to HD_CURRENT_FORCE, in order
ForceWrites(mol, data, grads, im, calc, sbd) ==
    IF Len(mol) > 0
    THEN LET closest_atom == ClosestAtom(mol, data)
             g == SelectedGradient(mol, data, grads)
             transformed_atom ==
                 transformToHapticCoordinates(closest_atom.x, closest_atom.y,
                                              closest_atom.z, im, scale_factor)
             transformed_gradient ==
                 transformToHapticCoordinates(g[1], g[2], g[3], im, scale_factor)
         IN  << setForce(transformed_atom, transformed_gradient, calc, sbd) >>
    ELSE << >>

FirstButtonPressed(cur, last) ==
    BitAnd(cur, HD_DEVICE_BUTTON_1) # 0 /\ BitAnd(last, HD_DEVICE_BUTTON_1) = 0

\* (mutation: released is tested on the current sample alone)
FirstButtonReleased_level(cur, last) == BitAnd(cur, HD_DEVICE_BUTTON_1) # 1

FirstButtonReleased(cur, last) ==
    BitAnd(cur, HD_DEVICE_BUTTON_1) # 1 /\ BitAnd(last, HD_DEVICE_BUTTON_1) = 1

SecondButtonPressed(cur, last) ==
    BitAnd(cur, HD_DEVICE_BUTTON_2) # 0 /\ BitAnd(last, HD_DEVICE_BUTTON_2) = 0

SecondButtonReleased(cur, last) ==
    BitAnd(cur, HD_DEVICE_BUTTON_2) # 2 /\ BitAnd(last, HD_DEVICE_BUTTON_2) = 2

\* (mutation: a listener registered twice is called once)
Notify_once(cbs, ev, arg) ==
    LET firsts == SelectSeq([i \in 1 .. Len(cbs) |-> i],
                            LAMBDA i : \A j \in 1 .. i - 1 : cbs[j] # cbs[i])
    IN  [k \in 1 .. Len(firsts) |->
            [reg |-> firsts[k], to |-> cbs[firsts[k]], ev |-> ev, arg |-> arg]]

\* for (auto* callback : callbacks) callback->ev(arg): the calls, in order;
\* reg is the position of the callee in callbacks
Notify(cbs, ev, arg) ==
    [i \in 1 .. Len(cbs) |-> [reg |-> i, to |-> cbs[i], ev |-> ev, arg |-> arg]]

\* a flag that is assigned inside the loop over the callbacks
AssignedInLoop(flag, cbs, value) == IF Len(cbs) > 0 THEN value ELSE flag

\* the calls the four button blocks make, in order
ButtonEvents(cbs, cur, last, selected_atom_id) ==
    (IF FirstButtonPressed(cur, last)
       THEN Notify(cbs, "first_button_down", <<>>) ELSE <<>>)
    \o (IF FirstButtonReleased(cur, last)
          THEN Notify(cbs, "first_button_up", <<>>) ELSE <<>>)
    \o (IF SecondButtonPressed(cur, last)
          THEN Notify(cbs, "second_button_down", <<selected_atom_id>>) ELSE <<>>)
    \o (IF SecondButtonReleased(cur, last)
          THEN Notify(cbs, "second_button_up", <<>>) ELSE <<>>)

FirstButtonFlag(flag, cbs, cur, last) ==
    LET f == IF FirstButtonPressed(cur, last)
             THEN AssignedInLoop(flag, cbs, TRUE) ELSE flag
    IN  IF FirstButtonReleased(cur, last) THEN AssignedInLoop(f, cbs, FALSE) ELSE f

SecondButtonFlag(flag, cbs, cur, last) ==
    LET f == IF SecondButtonPressed(cur, last)
             THEN AssignedInLoop(flag, cbs, TRUE) ELSE flag
    IN  IF SecondButtonReleased(cur, last) THEN AssignedInLoop(f, cbs, FALSE) ELSE f

\* (mutation: the delay is taken in milliseconds)
Throttled_millis(now, timestamp) == now - timestamp < kMinDelay \div 1000

\* now - last_event_timestamp < kMinDelay
Throttled(now, timestamp) == now - timestamp < kMinDelay

\* last_send_data as the move block reads it, after the first-call seeding
SeededLastSendData(first_time, lsd, last_position) ==
    IF first_time THEN last_position ELSE lsd

\* data != last_data in at least one component
PositionChanged(data, last_data) ==
    data[1] # last_data[1] \/ data[2] # last_data[2] \/ data[3] # last_data[3]

\* the calls of the move block
MoveEvents(cbs, cur_pos, lsd, tm) ==
    LET data == transformToAppCoordinates(cur_pos, tm, scale_factor)
        last_data == transformToAppCoordinates(lsd, tm, scale_factor)
    IN  IF PositionChanged(data, last_data)
        THEN Notify(cbs, "move",
                    << data, calculateAzimuth(cur_pos, lsd),
                       calculateElevation(cur_pos, lsd), calculateZoom(cur_pos, lsd) >>)
        ELSE << >>

\* ------------------------------------------------------------------------
\* what the model logs for registration i from the calls of one tick
IsDown(e) == e.ev = "first_button_down" \/ e.ev = "second_button_down"

LogOf(events, i, down, up) ==
    LET Mine(e) == e.reg = i /\ (e.ev = down \/ e.ev = up)
        mine == SelectSeq(events, Mine)
    IN  [k \in 1 .. Len(mine) |-> IF IsDown(mine[k]) THEN "down" ELSE "up"]

NotesAfter(n, events, cur) ==
    [i \in 1 .. Len(n) |->
        [n[i] EXCEPT
           !.first = @ \o LogOf(events, i, "first_button_down", "first_button_up"),
           !.second = @ \o LogOf(events, i, "second_button_down", "second_button_up"),
           !.samples = Append(@, cur)]]

\* (mutation: the error is reported and the callback returns)
TickError_returns ==
    /\ obs' = [op |-> "tick", err |-> TRUE, writes |-> << >>, events |-> << >>]
    /\ UNCHANGED << mgr, hw, hist, notes >>

\* exit(-1) after hdGetError reports a device error: nothing else is done
TickError ==
    /\ alive' = FALSE
    /\ obs' = [op |-> "tick", err |-> TRUE, writes |-> << >>, events |-> << >>]
    /\ UNCHANGED << mgr, hw_open, scheduled, scheduler_running,
                    hw_last_position, hw_last_buttons, clock, hist, notes >>

\* the tick from the snapshot block on; mol, tm, im and grads are the local
\* copies, calc is the value read from calc_gradient_in_loop
TickRunWith(mol, tm, im, grads, calc, current_position, current_buttons, delay) ==
    LET last_position == hw_last_position
        last_buttons == hw_last_buttons
        now == clock + delay
        data == transformToAppCoordinates(current_position, tm, scale_factor)
        selected_atom_id == SelectedAtomId(mol, data)
        writes == ForceWrites(mol, data, grads, im, calc, second_button_down)
        buttons == ButtonEvents(callbacks, current_buttons, last_buttons,
                                selected_atom_id)
        throttled == Throttled(now, last_event_timestamp)
        lsd == SeededLastSendData(call_first_time, last_send_data, last_position)
        moves == IF throttled THEN << >>
                 ELSE MoveEvents(callbacks, current_position, lsd, tm)
    IN  /\ first_button_down' =
              FirstButtonFlag(first_button_down, callbacks, current_buttons,
                              last_buttons)
        /\ second_button_down' =
              SecondButtonFlag(second_button_down, callbacks, current_buttons,
                               last_buttons)
        /\ IF throttled
           THEN UNCHANGED << last_event_timestamp, call_first_time,
                             last_send_data >>
           ELSE /\ last_event_timestamp' = now
                /\ call_first_time' = FALSE
                /\ last_send_data' = current_position
        /\ hist' = [(IF throttled THEN hist
                     ELSE [hist EXCEPT
                             !.pass_time = now,
                             !.pass_pos = current_position,
                             !.move_time = IF moves # << >> THEN now ELSE @])
                    EXCEPT !.session = hUpdateDeviceCallback]
        /\ hw_last_position' = current_position
        /\ hw_last_buttons' = current_buttons
        /\ clock' = now
        /\ notes' = NotesAfter(notes, buttons, current_buttons)
        /\ obs' = [op |-> "tick", err |-> FALSE,
                   current_position |-> current_position,
                   last_position |-> last_position,
                   current_buttons |-> current_buttons,
                   last_buttons |-> last_buttons, now |-> now,
                   molecule |-> mol, transformation_matrix |-> tm,
                   invert_matrix |-> im, gradients |-> grads, calc |-> calc,
                   writes |-> writes, events |-> buttons \o moves,
                   throttled |-> throttled, pre |-> hist,
                   session |-> hUpdateDeviceCallback, lsd |-> lsd]
        /\ UNCHANGED << ghHD, hUpdateDeviceCallback, calc_gradient_in_loop,
                        transformation_matrix, invert_matrix, gradient,
                        callbacks, molecule >>
        /\ UNCHANGED << hw_open, scheduled, scheduler_running, alive >>

\* (mutation: the throttle test comes first, before the force block and the
\* button blocks)
TickRun_throttle_first(current_position, current_buttons, delay) ==
    IF Throttled(clock + delay, last_event_timestamp)
    THEN /\ hw_last_position' = current_position
         /\ hw_last_buttons' = current_buttons
         /\ clock' = clock + delay
         /\ notes' = NotesAfter(notes, << >>, current_buttons)
         /\ hist' = [hist EXCEPT !.session = hUpdateDeviceCallback]
         /\ obs' = [op |-> "tick", err |-> FALSE,
                    current_position |-> current_position,
                    last_position |-> hw_last_position,
                    current_buttons |-> current_buttons,
                    last_buttons |-> hw_last_buttons, now |-> clock + delay,
                    molecule |-> molecule,
                    transformation_matrix |-> transformation_matrix,
                    invert_matrix |-> invert_matrix, gradients |-> gradient,
                    calc |-> calc_gradient_in_loop,
                    writes |-> << >>, events |-> << >>,
                    throttled |-> TRUE, pre |-> hist,
                    session |-> hUpdateDeviceCallback, lsd |-> last_send_data]
         /\ UNCHANGED << mgr, hw_open, scheduled, scheduler_running, alive >>
    ELSE TickRunWith(molecule, transformation_matrix, invert_matrix, gradient,
                     calc_gradient_in_loop, current_position, current_buttons,
                     delay)

TickRun(current_position, current_buttons, delay) ==
    TickRunWith(molecule, transformation_matrix, invert_matrix, gradient,
                calc_gradient_in_loop, current_position, current_buttons, delay)

updateDeviceCallback(current_position, current_buttons, delay, hw_error) ==
    /\ alive
    /\ scheduler_running
    /\ hUpdateDeviceCallback \in scheduled
    /\ nticks < MaxTicks
    /\ pc[LoopThread] = "idle"
    /\ nticks' = nticks + 1
    /\ UNCHANGED << ninits, conc >>
    /\ IF hw_error THEN TickError
       ELSE TickRun(current_position, current_buttons, delay)

(***************************************************************************)
(* The specification.                                                      *)
(***************************************************************************)
\* the next-state relation, by the part of the state the calls write, with
\* the inputs of the calls drawn from the sets of the record in
MoleculeCalls(in) ==
    \/ clear_molecule
    \/ \E atom \in in.atoms : add_atom(atom)
    \/ \E atom \in in.atoms : update_atom(atom)

GuidanceCalls(in) ==
    \/ \E b \in in.flags : set_calc_gradient_in_loop(b)
    \/ \E list \in in.gradients : update_gradient(list)

MatrixCalls(in) ==
    \E pair \in in.matrices : set_transformation_matrix(pair[1], pair[2])

DeviceCalls(in) ==
    \/ \E callback \in in.listeners : add_haptic_callback(callback)
    \/ \E open_error \in in.errors, start_error \in in.errors :
          ninits < in.inits /\ init_haptic_device(open_error, start_error)
    \/ exit_haptic_device
    \/ \E p \in in.positions, b \in in.buttons, d \in in.delays, e \in in.errors :
          updateDeviceCallback(p, b, d, e)

NextWith(in) ==
    \/ MoleculeCalls(in)
    \/ GuidanceCalls(in)
    \/ MatrixCalls(in)
    \/ DeviceCalls(in)

AllInputs ==
    [atoms |-> AtomSet, flags |-> BOOLEAN, gradients |-> GradLists,
     matrices |-> MatrixPairs, listeners |-> Listeners, errors |-> BOOLEAN,
     positions |-> Positions, buttons |-> Buttons, delays |-> Delays,
     inits |-> MaxInits]

Next == NextWith(AllInputs)

Spec == Init /\ [][Next]_vars

\* inputs that leave the state they write as constructed, for the calls a
\* slice does not vary; the device is opened once
QuietInputs ==
    [atoms |-> { Atom(0, 0, 0, 0, 4) }, flags |-> {FALSE},
     gradients |-> { <<50, 0, 0>> },
     matrices |-> { <<Flatten(Identity4), Flatten(Identity4)>> },
     listeners |-> {1}, errors |-> {FALSE},
     positions |-> { <<0, 0, 0>> }, buttons |-> {0}, delays |-> { kMinDelay },
     inits |-> 1]

\* the force write: guidance flag, button 2, a pointer inside and outside
\* the capture zone
ForceInputs ==
    [QuietInputs EXCEPT !.flags = BOOLEAN, !.buttons = {0, 2},
                        !.positions = { <<0, 0, 0>>, <<30, -5, 11>> }]

SpecForce == Init /\ [][NextWith(ForceInputs)]_vars

\* button edges: every button mask, two listeners, the scene as constructed
ButtonInputs == [QuietInputs EXCEPT !.buttons = Buttons, !.listeners = Listeners]

SpecButtons == Init /\ [][DeviceCalls(ButtonInputs)]_vars

\* move notifications: delays around kMinDelay, positions around the zoom
\* threshold, a transformation that maps distinct positions to one
MoveInputs ==
    [QuietInputs EXCEPT !.delays = Delays, !.positions = Positions,
                        !.matrices = { <<Flatten(Identity4), Flatten(Identity4)>>,
                                       <<Flatten(DropZ), Flatten(Identity4)>> }]

NextMove == MatrixCalls(MoveInputs) \/ DeviceCalls(MoveInputs)

SpecMove == Init /\ [][NextMove]_vars

\* atom selection: atoms of different radii, pointers on, inside and outside
\* the capture zone, button 2
SelectInputs ==
    [QuietInputs EXCEPT !.atoms = AtomSet, !.positions = Positions,
                        !.buttons = {0, 2}]

NextSelect == MoleculeCalls(SelectInputs) \/ DeviceCalls(SelectInputs)

SpecSelect == Init /\ [][NextSelect]_vars

\* the life cycle: init and exit in any order, hardware errors, a pointer
\* that moves, button 1, ticks inside and outside the throttle window, one
\* atom
LifeInputs ==
    [QuietInputs EXCEPT !.errors = BOOLEAN, !.inits = MaxInits,
                        !.buttons = {0, 1}, !.delays = { 1, kMinDelay },
                        !.positions = { <<0, 0, 0>>, <<30, -5, 11>> }]

NextLife == MoleculeCalls(LifeInputs) \/ DeviceCalls(LifeInputs)

SpecLife == Init /\ [][NextLife]_vars

\* the gradient table: lists of one and of two rows in any order, atoms with
\* ids 0 and 1, a pointer on either atom, guidance and button 2
GradientInputs ==
    [QuietInputs EXCEPT !.gradients = GradLists, !.atoms = AtomSet,
                        !.flags = {TRUE}, !.buttons = {2},
                        !.positions = { <<0, 0, 0>>, <<0, 0, 12>> }]

NextGradient ==
    \/ MoleculeCalls(GradientInputs)
    \/ GuidanceCalls(GradientInputs)
    \/ DeviceCalls(GradientInputs)

SpecGradient == Init /\ [][NextGradient]_vars

\* listeners: registrations of two listeners, also of one listener twice,
\* ticks with button edges and with a pointer that moves
ListenerInputs ==
    [QuietInputs EXCEPT !.listeners = Listeners, !.buttons = {0, 3},
                        !.positions = { <<0, 0, 0>>, <<30, -5, 11>> }]

SpecListeners == Init /\ [][DeviceCalls(ListenerInputs)]_vars

\* hardware errors in init and in ticks, with an atom and a listener
ErrorInputs == [QuietInputs EXCEPT !.errors = BOOLEAN, !.buttons = {0, 1}]

NextError == MoleculeCalls(ErrorInputs) \/ DeviceCalls(ErrorInputs)

SpecError == Init /\ [][NextError]_vars

\* the throttle: ticks inside and outside the window, with an atom under
\* the pointer, guidance, a gradient, both buttons pressed and released
\* together, and a listener
ThrottleInputs ==
    [QuietInputs EXCEPT !.flags = {TRUE}, !.buttons = {0, 3},
                        !.delays = { 1, kMinDelay }]

NextThrottle ==
    \/ MoleculeCalls(ThrottleInputs)
    \/ GuidanceCalls(ThrottleInputs)
    \/ DeviceCalls(ThrottleInputs)

SpecThrottle == Init /\ [][NextThrottle]_vars

\* sessions: init and exit in any order, with and without hardware errors,
\* and ticks between them
SessionInputs == [QuietInputs EXCEPT !.errors = BOOLEAN, !.inits = MaxInits]

SpecSession == Init /\ [][DeviceCalls(SessionInputs)]_vars

\* the force under a transform pair whose inverse has a translation column:
\* guidance, button 2, an atom, with and without a gradient row for it
TranslatedInputs ==
    [QuietInputs EXCEPT !.flags = {TRUE}, !.buttons = {0, 2},
                        !.matrices = { <<Flatten(Translate(30)),
                                         Flatten(Translate(-30))>> }]

SpecTranslated == Init /\ [][NextWith(TranslatedInputs)]_vars

\* capture with atoms of differing radii: a wide atom and a narrow one, and
\* a pointer between them that is nearer to the narrow one
CaptureInputs ==
    [QuietInputs EXCEPT !.atoms = { Atom(0, 0, 0, 0, 4), Atom(1, 0, 0, 12, 1) },
                        !.positions = { <<0, 0, 0>>, <<0, 0, 8>> },
                        !.buttons = {0, 2}]

NextCapture == MoleculeCalls(CaptureInputs) \/ DeviceCalls(CaptureInputs)

SpecCapture == Init /\ [][NextCapture]_vars

(***************************************************************************)
(* The calls statement by statement, for the interleavings of the          *)
(* servicing loop with the application threads.  A thread is idle, or at   *)
(* one statement of a call; its locals are in loc.                         *)
(***************************************************************************)
\* the mutex the lock_guard of a mutator takes
MutexOf(op) ==
    CASE op \in { "clear_molecule", "add_atom", "update_atom" } -> "molecule"
      [] op \in { "update_gradient", "set_calc_gradient_in_loop" } -> "gradient"
      [] op = "set_transformation_matrix" -> "matrix"

\* (mutation: a lock that does not exclude)
CanAcquire_shared(m) == TRUE

\* std::lock_guard's constructor returns only once no other thread holds
\* the mutex
CanAcquire(m) == mutex[m] = NoThread

\* what a mutex protects, as it is now
Protected(m) ==
    CASE m = "molecule" -> molecule
      [] m = "matrix" -> << transformation_matrix, invert_matrix >>
      [] m = "gradient" -> gradient

\* the application threads inside a call of op
Pending(op) == { t \in AppThreads : pc[t] # "idle" /\ loc[t].op = op }

\* what the statements of the mutators write, and what they leave alone
Scene ==
    << molecule, gradient, transformation_matrix, invert_matrix,
       calc_gradient_in_loop >>

NotScene ==
    << ghHD, hUpdateDeviceCallback, first_button_down, second_button_down,
       call_first_time, last_send_data, callbacks, last_event_timestamp >>

\* an application thread calls a mutator: it is now at the lock_guard.
\* update_atom is called with an index of the vector, and not while another
\* thread may clear the vector (the index would be out of range)
Enter(t, op, arg) ==
    /\ alive
    /\ pc[t] = "idle"
    /\ op = "add_atom" =>
          Len(molecule) + Cardinality(Pending("add_atom")) < MaxAtoms
    /\ op = "update_atom" =>
          arg.id < Len(molecule) /\ Pending("clear_molecule") = {}
    /\ op = "clear_molecule" => Pending("update_atom") = {}
    /\ pc' = [pc EXCEPT ![t] = "lock"]
    /\ loc' = [loc EXCEPT ![t] = [op |-> op, arg |-> arg]]
    /\ obs' = NoObs
    /\ UNCHANGED << mgr, hw, ninits, nticks, hist, notes, mutex, committed >>

\* std::lock_guard<std::mutex> lock(...)
Lock(t) ==
    /\ pc[t] = "lock"
    /\ CanAcquire(MutexOf(loc[t].op))
    /\ mutex' = [mutex EXCEPT ![MutexOf(loc[t].op)] = t]
    /\ pc' = [pc EXCEPT ![t] = "body"]
    /\ obs' = NoObs
    /\ UNCHANGED << mgr, hw, ninits, nticks, hist, notes, loc, committed >>

\* thread t, at statement from of op, goes to statement to
Step(t, op, from, to) ==
    /\ pc[t] = from
    /\ loc[t].op = op
    /\ pc' = [pc EXCEPT ![t] = to]
    /\ obs' = NoObs
    /\ UNCHANGED << NotScene, hw, ninits, nticks, hist, notes, mutex, loc,
                    committed >>

clear_molecule_body(t) ==
    /\ Step(t, "clear_molecule", "body", "unlock")
    /\ molecule' = <<>>
    /\ UNCHANGED << gradient, transformation_matrix, invert_matrix,
                    calc_gradient_in_loop >>

add_atom_body(t) ==
    /\ Step(t, "add_atom", "body", "unlock")
    /\ molecule' = Append(molecule, loc[t].arg)
    /\ UNCHANGED << gradient, transformation_matrix, invert_matrix,
                    calc_gradient_in_loop >>

update_atom_body(t) ==
    /\ Step(t, "update_atom", "body", "unlock")
    /\ molecule' = [molecule EXCEPT ![loc[t].arg.id + 1] = loc[t].arg]
    /\ UNCHANGED << gradient, transformation_matrix, invert_matrix,
                    calc_gradient_in_loop >>

set_calc_gradient_in_loop_body(t) ==
    /\ Step(t, "set_calc_gradient_in_loop", "body", "unlock")
    /\ calc_gradient_in_loop' = loc[t].arg
    /\ UNCHANGED << molecule, gradient, transformation_matrix, invert_matrix >>

\* the loop that grows the gradient by one row per three values
update_gradient_grow(t) ==
    /\ Step(t, "update_gradient", "body", "write")
    /\ gradient' = GrowGradient(gradient, Len(loc[t].arg))
    /\ UNCHANGED << molecule, transformation_matrix, invert_matrix,
                    calc_gradient_in_loop >>

\* the loop that writes the values
update_gradient_write(t) ==
    /\ Step(t, "update_gradient", "write", "unlock")
    /\ gradient' = WriteGradient(gradient, loc[t].arg, 0)
    /\ UNCHANGED << molecule, transformation_matrix, invert_matrix,
                    calc_gradient_in_loop >>

\* the loop over t_matrix
set_transformation_matrix_t(t) ==
    /\ Step(t, "set_transformation_matrix", "body", "write")
    /\ transformation_matrix' =
          WriteMatrix(transformation_matrix, loc[t].arg[1], 0)
    /\ UNCHANGED << molecule, gradient, invert_matrix, calc_gradient_in_loop >>

\* the loop over i_matrix
set_transformation_matrix_i(t) ==
    /\ Step(t, "set_transformation_matrix", "write", "unlock")
    /\ invert_matrix' = WriteMatrix(invert_matrix, loc[t].arg[2], 0)
    /\ UNCHANGED << molecule, gradient, transformation_matrix,
                    calc_gradient_in_loop >>

\* the lock_guard goes out of scope and the call returns
Unlock(t) ==
    /\ pc[t] = "unlock"
    /\ mutex' = [mutex EXCEPT ![MutexOf(loc[t].op)] = NoThread]
    /\ committed' = [committed EXCEPT ![MutexOf(loc[t].op)] =
                                          Protected(MutexOf(loc[t].op))]
    /\ pc' = [pc EXCEPT ![t] = "idle"]
    /\ loc' = [loc EXCEPT ![t] = NoLocals]
    /\ obs' = NoObs
    /\ hist' = IF loc[t].op = "update_gradient"
               THEN [hist EXCEPT !.gradient_list = loc[t].arg] ELSE hist
    /\ UNCHANGED << mgr, hw, ninits, nticks, notes >>

\* the locals of a tick: the samples read from the hardware and the four
\* copies, empty until they are assigned
TickLocals(current_position, current_buttons, delay) ==
    [op |-> "tick", current_position |-> current_position,
     current_buttons |-> current_buttons, delay |-> delay,
     molecule |-> <<>>, transformation_matrix |-> <<>>,
     invert_matrix |-> <<>>, gradients |-> <<>>, calc |-> FALSE]

\* the scheduler calls the callback: the samples are read; a device error
\* ends the process
tick_begin(current_position, current_buttons, delay, hw_error) ==
    /\ alive
    /\ scheduler_running
    /\ hUpdateDeviceCallback \in scheduled
    /\ nticks < MaxConcTicks
    /\ pc[LoopThread] = "idle"
    /\ nticks' = nticks + 1
    /\ ninits' = ninits
    /\ IF hw_error
       THEN TickError /\ UNCHANGED conc
       ELSE /\ pc' = [pc EXCEPT ![LoopThread] = "lock_molecule"]
            /\ loc' = [loc EXCEPT ![LoopThread] =
                          TickLocals(current_position, current_buttons, delay)]
            /\ obs' = NoObs
            /\ UNCHANGED << mgr, hw, hist, notes, mutex, committed >>

\* (mutation: the first lock_guard is not in a block of its own)
LoopAfter_nested(p) ==
    CASE p = "copy_molecule" -> "lock_matrix"
      [] p = "unlock_molecule" -> "lock_matrix"
      [] p = "copy_transformation" -> "copy_invert"
      [] p = "copy_invert" -> "unlock_matrix"
      [] p = "unlock_matrix" -> "lock_gradient"
      [] p = "copy_gradient" -> "unlock_gradient"

\* the statement of the copy blocks that follows statement p
LoopAfter(p) ==
    CASE p = "copy_molecule" -> "unlock_molecule"
      [] p = "unlock_molecule" -> "lock_matrix"
      [] p = "copy_transformation" -> "copy_invert"
      [] p = "copy_invert" -> "unlock_matrix"
      [] p = "unlock_matrix" -> "lock_gradient"
      [] p = "copy_gradient" -> "unlock_gradient"

\* the loop thread goes to statement to
LoopStep(to) ==
    /\ pc' = [pc EXCEPT ![LoopThread] = to]
    /\ obs' = NoObs
    /\ UNCHANGED << mgr, hw, ninits, nticks, hist, notes, committed >>

\* the lock_guard that opens the copy block of m
loop_lock(m, first) ==
    /\ pc[LoopThread] = "lock_" \o m
    /\ CanAcquire(m)
    /\ mutex' = [mutex EXCEPT ![m] = LoopThread]
    /\ LoopStep(first)
    /\ UNCHANGED loc

\* molecule = p_this->molecule
loop_copy_molecule ==
    /\ pc[LoopThread] = "copy_molecule"
    /\ loc' = [loc EXCEPT ![LoopThread].molecule = molecule]
    /\ LoopStep(LoopAfter("copy_molecule"))
    /\ UNCHANGED mutex

\* transformation_matrix = p_this->transformation_matrix
loop_copy_transformation ==
    /\ pc[LoopThread] = "copy_transformation"
    /\ loc' = [loc EXCEPT ![LoopThread].transformation_matrix =
                             transformation_matrix]
    /\ LoopStep(LoopAfter("copy_transformation"))
    /\ UNCHANGED mutex

\* invert_matrix = p_this->invert_matrix
loop_copy_invert ==
    /\ pc[LoopThread] = "copy_invert"
    /\ loc' = [loc EXCEPT ![LoopThread].invert_matrix = invert_matrix]
    /\ LoopStep(LoopAfter("copy_invert"))
    /\ UNCHANGED mutex

\* gradients = p_this->gradient
loop_copy_gradient ==
    /\ pc[LoopThread] = "copy_gradient"
    /\ loc' = [loc EXCEPT ![LoopThread].gradients = gradient]
    /\ LoopStep(LoopAfter("copy_gradient"))
    /\ UNCHANGED mutex

\* the end of the copy block of m; after the last block setForce is called
\* if the copied molecule has atoms
loop_unlock(m) ==
    /\ pc[LoopThread] = "unlock_" \o m
    /\ mutex' = [mutex EXCEPT ![m] = NoThread]
    /\ LoopStep(IF m # "gradient" THEN LoopAfter("unlock_" \o m)
                ELSE IF Len(loc[LoopThread].molecule) > 0 THEN "read_flag"
                ELSE "finish")
    /\ UNCHANGED loc

\* setForce reads p_this->calc_gradient_in_loop
loop_read_flag ==
    /\ pc[LoopThread] = "read_flag"
    /\ loc' = [loc EXCEPT ![LoopThread].calc = calc_gradient_in_loop]
    /\ LoopStep("finish")
    /\ UNCHANGED mutex

\* the rest of the tick, on the copies
loop_finish ==
    /\ pc[LoopThread] = "finish"
    /\ LET l == loc[LoopThread]
       IN  TickRunWith(l.molecule, l.transformation_matrix, l.invert_matrix,
                       l.gradients, l.calc, l.current_position,
                       l.current_buttons, l.delay)
    /\ pc' = [pc EXCEPT ![LoopThread] = "idle"]
    /\ loc' = [loc EXCEPT ![LoopThread] = NoLocals]
    /\ UNCHANGED << ninits, nticks, mutex, committed >>

\* the mutator calls and ticks of the interleaved specification; the device
\* is opened once
ConcInputs ==
    [QuietInputs EXCEPT !.flags = {TRUE},
                        !.matrices = { <<Flatten(Translate(10)),
                                         Flatten(Translate(0 - 10))>>,
                                       <<Flatten(Translate(30)),
                                         Flatten(Translate(0 - 30))>> }]

NextConc ==
    \/ \E t \in AppThreads : Enter(t, "clear_molecule", <<>>)
    \/ \E t \in AppThreads, atom \in ConcInputs.atoms : Enter(t, "add_atom", atom)
    \/ \E t \in AppThreads, atom \in ConcInputs.atoms :
          Enter(t, "update_atom", atom)
    \/ \E t \in AppThreads, b \in ConcInputs.flags :
          Enter(t, "set_calc_gradient_in_loop", b)
    \/ \E t \in AppThreads, list \in ConcInputs.gradients :
          Enter(t, "update_gradient", list)
    \/ \E t \in AppThreads, pair \in ConcInputs.matrices :
          Enter(t, "set_transformation_matrix", pair)
    \/ \E t \in AppThreads : Lock(t)
    \/ \E t \in AppThreads : clear_molecule_body(t)
    \/ \E t \in AppThreads : add_atom_body(t)
    \/ \E t \in AppThreads : update_atom_body(t)
    \/ \E t \in AppThreads : set_calc_gradient_in_loop_body(t)
    \/ \E t \in AppThreads : update_gradient_grow(t)
    \/ \E t \in AppThreads : update_gradient_write(t)
    \/ \E t \in AppThreads : set_transformation_matrix_t(t)
    \/ \E t \in AppThreads : set_transformation_matrix_i(t)
    \/ \E t \in AppThreads : Unlock(t)
    \/ \E open_error \in ConcInputs.errors, start_error \in ConcInputs.errors :
          ninits = 0 /\ init_haptic_device(open_error, start_error)
    \/ \E p \in ConcInputs.positions, b \in ConcInputs.buttons,
          d \in ConcInputs.delays, e \in ConcInputs.errors :
          tick_begin(p, b, d, e)
    \/ loop_lock("molecule", "copy_molecule")
    \/ loop_lock("matrix", "copy_transformation")
    \/ loop_lock("gradient", "copy_gradient")
    \/ loop_copy_molecule
    \/ loop_copy_transformation
    \/ loop_copy_invert
    \/ loop_copy_gradient
    \/ \E m \in Mutexes : loop_unlock(m)
    \/ loop_read_flag
    \/ loop_finish

SpecConc == Init /\ [][NextConc]_vars

(***************************************************************************)
(* findClosestAtomIndex on its own: the atom list is drawn in the initial  *)
(* state, each step applies the function to one pointer.                   *)
(***************************************************************************)
\* atoms on a line, two of them at the same place
ClosestAtoms ==
    { Atom(0, 0, 0, 0, 1), Atom(1, 10, 0, 0, 1), Atom(2, 20, 0, 0, 1),
      Atom(3, 0, 0, 0, 1) }

\* pointers on and between the atoms
ClosestPointers ==
    { <<0, 0, 0>>, <<5, 0, 0>>, <<10, 0, 0>>, <<15, 0, 0>>, <<30, 0, 0>> }

\* the lists of at most n elements of S
RECURSIVE SeqsUpTo(_, _)
SeqsUpTo(S, n) ==
    IF n = 0 THEN { << >> }
    ELSE SeqsUpTo(S, n - 1)
         \cup { Append(q, x) : q \in { r \in SeqsUpTo(S, n - 1) : Len(r) = n - 1 },
                               x \in S }

InitClosest == molecule \in SeqsUpTo(ClosestAtoms, MaxAtoms) /\ InitRest

ApplyFindClosest(data) ==
    /\ obs' = [op |-> "findClosestAtomIndex", data |-> data,
               result |-> findClosestAtomIndex(molecule, data)]
    /\ UNCHANGED << mgr, hw, ninits, nticks, hist, notes, conc >>

NextClosest == \E data \in ClosestPointers : ApplyFindClosest(data)

SpecClosest == InitClosest /\ [][NextClosest]_vars

\* flat gradient lists of every length up to MaxValues, multiples of 3 or not
FlatValues == { 0, 50 }

FlatLists == SeqsUpTo(FlatValues, MaxValues)

FlatInputs == [QuietInputs EXCEPT !.gradients = FlatLists]

SpecRows == Init /\ [][GuidanceCalls(FlatInputs)]_vars

(***************************************************************************)
(* scaleForce and setForce on their own: each step applies them to one     *)
(* atom position and one gradient.  The gradients are multiples of vectors *)
(* of whole length (2 along an axis, 5 otherwise), in steps for which the  *)
(* stiffness and the clamp are exact in whole units.                       *)
(***************************************************************************)
GradientDirections ==
    { <<3, 4, 0>>, <<0, 3, 4>>, <<4, 0, 3>>, <<-3, 0, -4>>, <<0, -4, 3>>,
      <<2, 0, 0>>, <<0, -2, 0>>, <<0, 0, 2>>, <<-4, -3, 0>> }

GradientStep == 2 + 3

ForceGradients ==
    { hduVecScale(d, GradientStep * k, 1) :
        d \in GradientDirections, k \in 0 .. MaxGradientSteps }

ForceAtomPositions == { <<0, 0, 0>>, <<30, -5, 11>> }

ApplySetForce(atom_pos, atom_gradient, calc, sbd) ==
    /\ obs' = [op |-> "setForce", atom_pos |-> atom_pos,
               atom_gradient |-> atom_gradient, calc |-> calc, sbd |-> sbd,
               scaled |-> scaleForce(hduVecSubtract(Zero3, atom_gradient),
                                     AnchorStiffness),
               written |-> setForce(atom_pos, atom_gradient, calc, sbd)]
    /\ UNCHANGED << mgr, hw, ninits, nticks, hist, notes, conc >>

NextScale ==
    \E atom_pos \in ForceAtomPositions, atom_gradient \in ForceGradients,
       calc \in BOOLEAN, sbd \in BOOLEAN :
        ApplySetForce(atom_pos, atom_gradient, calc, sbd)

SpecScale == Init /\ [][NextScale]_vars

(***************************************************************************)
(* Properties.                                                             *)
(***************************************************************************)
\* obs describes a tick that ran to completion
TickDone == obs.op = "tick" /\ ~obs.err

\* the pointer of the observed tick in application coordinates
ObsData ==
    transformToAppCoordinates(obs.current_position, obs.transformation_matrix,
                              scale_factor)

\* the force setForce derives from the gradient in the observed tick
ObsGuidanceForce ==
    ForceWrites(obs.molecule, ObsData, obs.gradients, obs.invert_matrix,
                TRUE, TRUE)[1]

ObsButton2Held == BitAnd(obs.current_buttons, HD_DEVICE_BUTTON_2) # 0

\* C1: in every tick that writes a force, the force written is the
\* gradient-derived guidance force when guidance mode is enabled and button 2
\* is held in the tick's current button sample, and the zero vector otherwise.
C1_ForceFollowsCurrentButton ==
    (TickDone /\ obs.writes # << >>) =>
        obs.writes[1] = IF obs.calc /\ ObsButton2Held THEN ObsGuidanceForce
                        ELSE Zero3

\* C2: every tick that runs to completion writes the hardware force exactly
\* once, whatever the atom list holds, the empty list included.
C2_EveryTickWritesForceOnce == TickDone => Len(obs.writes) = 1

\* ------------------------------------------------------------------------
\* the bits of one button in a sequence of button masks
BitsOf(samples, mask) == [k \in 1 .. Len(samples) |-> BitAnd(samples[k], mask)]

\* the notifications the edges of a bit sequence call for: one down per rise,
\* one up per fall, none while the bit keeps its value
RECURSIVE EdgeLog(_, _)
EdgeLog(bits, k) ==
    IF k > Len(bits) THEN << >>
    ELSE (IF bits[k] # 0 /\ bits[k - 1] = 0 THEN <<"down">>
          ELSE IF bits[k] = 0 /\ bits[k - 1] # 0 THEN <<"up">>
          ELSE << >>) \o EdgeLog(bits, k + 1)

\* down and up strictly alternate, starting with down (downFirst) or with up
Alternates(log, downFirst) ==
    \A k \in 1 .. Len(log) :
        log[k] = IF (k % 2 = 1) = downFirst THEN "down" ELSE "up"

IsMove(e) == e.ev = "move"

ObsMoves == SelectSeq(obs.events, IsMove)

\* C4: a tick that runs less than kMinDelay after the most recent
\* non-throttled tick delivers no move, and a tick that delivers a move runs
\* at least kMinDelay after the previous tick that delivered one (each
\* listener's previous move is no later than that tick).
C4_MoveRateLimited ==
    TickDone =>
        /\ (obs.pre.pass_time # None /\ obs.now - obs.pre.pass_time < kMinDelay)
              => ObsMoves = << >>
        /\ (ObsMoves # << >> /\ obs.pre.move_time # None)
              => obs.now - obs.pre.move_time >= kMinDelay

\* a tick less than kMinDelay after a non-throttled one, with a listener
\* registered and the application position changed: no move is delivered
C4_Witness ==
    /\ TickDone
    /\ callbacks # << >>
    /\ obs.pre.pass_time # None
    /\ obs.now - obs.pre.pass_time < kMinDelay
    /\ ObsData # transformToAppCoordinates(obs.pre.pass_pos,
                                           obs.transformation_matrix, scale_factor)
    /\ ObsMoves = << >>

\* ------------------------------------------------------------------------
\* the device position recorded at the most recent earlier non-throttled
\* tick; for the first such tick, the previous-position sample of the tick
ObsRecorded ==
    IF obs.pre.pass_time = None THEN obs.last_position ELSE obs.pre.pass_pos

ObsExpectedZoom ==
    LET dz == ObsRecorded[3] - obs.current_position[3]
    IN  IF dz <= -12 THEN 90 ELSE IF dz >= 12 THEN 110 ELSE 100

ObsExpectedMove ==
    << ObsData, ObsRecorded[1] - obs.current_position[1],
       ObsRecorded[2] - obs.current_position[2], ObsExpectedZoom >>

\* C5: on every non-throttled tick, each registered listener receives move
\* if and only if the application-coordinate position of the current device
\* position differs from that of the recorded device position, and the call
\* carries the position, azimuth = recorded.x - current.x, elevation =
\* recorded.y - current.y and zoom 0.90 / 1.10 / 1.0 by the 1.2 thresholds.
C5_MoveIffPositionChanged ==
    (TickDone /\ ~obs.throttled) =>
        LET changed ==
                ObsData # transformToAppCoordinates(ObsRecorded,
                              obs.transformation_matrix, scale_factor)
        IN  /\ Len(ObsMoves) = IF changed THEN Len(callbacks) ELSE 0
            /\ \A k \in 1 .. Len(ObsMoves) :
                   /\ ObsMoves[k].reg = k
                   /\ ObsMoves[k].arg = ObsExpectedMove

\* a non-throttled tick that delivered a move with the z difference exactly
\* at the threshold (zoom out)
C5_Witness ==
    /\ TickDone
    /\ ~obs.throttled
    /\ ObsMoves # << >>
    /\ ObsRecorded[3] - obs.current_position[3] = -ZoomThreshold
    /\ ObsMoves[1].arg[4] = ZoomOut

\* ------------------------------------------------------------------------
\* the lowest position (1-based) among the atoms at minimum distance
MinDistanceIndex(mol, data) ==
    CHOOSE i \in 1 .. Len(mol) :
        \A j \in 1 .. Len(mol) :
            \/ calculateDistanceSq(mol[i], data) < calculateDistanceSq(mol[j], data)
            \/ /\ calculateDistanceSq(mol[i], data) = calculateDistanceSq(mol[j], data)
               /\ i <= j

\* the id of the closest atom when the pointer is at most 3 radii from it,
\* and -1 otherwise
ExpectedSelection(mol, data) ==
    IF mol = << >> THEN -1
    ELSE LET a == mol[MinDistanceIndex(mol, data)]
         IN  IF a.distance >= 0
                /\ calculateDistanceSq(a, data) <= 9 * a.distance * a.distance
             THEN a.id ELSE -1

IsSecondDown(e) == e.ev = "second_button_down"

ObsSecondDowns == SelectSeq(obs.events, IsSecondDown)

ObsButton2Pressed ==
    /\ BitAnd(obs.current_buttons, HD_DEVICE_BUTTON_2) # 0
    /\ BitAnd(obs.last_buttons, HD_DEVICE_BUTTON_2) = 0

C10_ClosestIsLowestIndexAtMinimum ==
    obs.op = "findClosestAtomIndex" =>
        obs.result = IF molecule = << >> THEN -1
                     ELSE MinDistanceIndex(molecule, obs.data) - 1

\* two atoms at the same distance: the first one is returned
C10_Witness ==
    /\ obs.op = "findClosestAtomIndex"
    /\ Len(molecule) = 2
    /\ calculateDistanceSq(molecule[1], obs.data)
         = calculateDistanceSq(molecule[2], obs.data)
    /\ obs.result = 0

(***************************************************************************)
(* Locking.                                                                *)
(***************************************************************************)
HeldBy(t) == { m \in Mutexes : mutex[m] = t }

\* the mutex thread t is waiting for, if it is at a lock_guard
WaitsFor(t) ==
    IF t = LoopThread
    THEN { m \in Mutexes : pc[t] = "lock_" \o m }
    ELSE IF pc[t] = "lock" THEN { MutexOf(loc[t].op) } ELSE {}

Blocked(t) == \E m \in WaitsFor(t) : mutex[m] # NoThread

Busy == { t \in Threads : pc[t] # "idle" }

\* C6: no thread holds more than one of the three mutexes at a time; a
\* thread that waits for a mutex holds none, so the holder it waits for is
\* never itself waiting, and whenever a call is in progress some thread in a
\* call can take its next step (no interleaving of ticks and mutator calls
\* deadlocks).
C6_AtMostOneMutexNoDeadlock ==
    /\ \A t \in Threads : Cardinality(HeldBy(t)) <= 1
    /\ \A t \in Threads : WaitsFor(t) # {} => HeldBy(t) = {}
    /\ \A t \in Threads : \A m \in WaitsFor(t) :
          mutex[m] # NoThread => ~Blocked(mutex[m])
    /\ Busy # {} => \E t \in Busy : ~Blocked(t)

\* the loop thread holds one mutex, an application thread waits for it and
\* the other application thread holds another mutex
C6_Witness ==
    /\ mutex["matrix"] = LoopThread
    /\ \E t \in AppThreads :
          /\ Blocked(t)
          /\ WaitsFor(t) = { "matrix" }
          /\ \E u \in AppThreads \ {t} : HeldBy(u) = { "gradient" }

\* C7: the molecule, the pair of matrices and the gradient a tick copies are
\* each the value a completed mutator call left (or the initial value), never
\* a value from the middle of a call: at the end of each copy block the copy
\* equals the scene as the last returned call on that mutex left it, and the
\* two matrices copied are the two lists of one set_transformation_matrix
\* call (or both the identity).
C7_SnapshotsAreCommittedValues ==
    /\ pc[LoopThread] = "unlock_molecule" =>
          loc[LoopThread].molecule = committed["molecule"]
    /\ pc[LoopThread] = "unlock_matrix" =>
          << loc[LoopThread].transformation_matrix,
             loc[LoopThread].invert_matrix >> = committed["matrix"]
    /\ pc[LoopThread] = "unlock_gradient" =>
          loc[LoopThread].gradients = committed["gradient"]
    /\ pc[LoopThread] = "unlock_matrix" =>
          \/ /\ loc[LoopThread].transformation_matrix = Identity4
             /\ loc[LoopThread].invert_matrix = Identity4
          \/ \E pair \in ConcInputs.matrices :
                /\ Flatten(loc[LoopThread].transformation_matrix) = pair[1]
                /\ Flatten(loc[LoopThread].invert_matrix) = pair[2]

\* a tick has copied a pair of matrices that a completed call wrote, while
\* another call waits to write the matrices
C7_Witness ==
    /\ pc[LoopThread] = "unlock_matrix"
    /\ loc[LoopThread].transformation_matrix # Identity4
    /\ loc[LoopThread].invert_matrix # Identity4
    /\ \E t \in AppThreads :
          pc[t] = "lock" /\ loc[t].op = "set_transformation_matrix"

\* C8: every write of the guidance flag by set_calc_gradient_in_loop and
\* every read of it by the servicing loop is made by a thread that holds the
\* gradient mutex, so that no tick reads the flag while a write is in
\* progress.
C8_FlagAccessHoldsGradientMutex ==
    /\ \A t \in AppThreads :
          (pc[t] = "body" /\ loc[t].op = "set_calc_gradient_in_loop") =>
              mutex["gradient"] = t
    /\ pc[LoopThread] = "read_flag" => mutex["gradient"] = LoopThread
    /\ ~ (/\ pc[LoopThread] = "read_flag"
          /\ \E t \in AppThreads :
                pc[t] = "body" /\ loc[t].op = "set_calc_gradient_in_loop")

(***************************************************************************)
(* Life cycle.                                                             *)
(***************************************************************************)
ExitDone == obs.op = "exit"

\* C11: a call of exit_haptic_device made while no session is active (never
\* started, or already stopped) changes no field of the manager and passes
\* no handle to hdUnschedule that is invalid or not scheduled.
C11_ExitWithoutSessionIsNoOp ==
    (ExitDone /\ ~obs.active) =>
        /\ mgr = obs.pre
        /\ obs.unscheduled # HD_INVALID_HANDLE
        /\ obs.was_scheduled

InitFailed == obs.op = "init" /\ ~obs.ret

\* C12: after init_haptic_device has returned false (a hardware step
\* reported an error) the device is unusable: no servicing-loop callback is
\* registered with the scheduler and the scheduler runs no tick.
C12_FailedInitLeavesNothingRegistered ==
    InitFailed => (scheduled = {} /\ ~scheduler_running)

\* the tick is the first one that ran under its scheduler handle
FirstTickOfSession == TickDone /\ obs.pre.session # obs.session

\* C13: the session state is initialised by init_haptic_device and reset by
\* exit_haptic_device, so that after any sequence of init and exit calls the
\* first tick after a start that passes the throttle compares the pointer
\* with the previous-position sample read in that tick (the seeded
\* last-emitted position).
C13_FirstTickOfSessionSeeds ==
    (FirstTickOfSession /\ ~obs.throttled) => obs.lsd = obs.last_position

TickFailed == obs.op = "tick" /\ obs.err

\* C14: a tick in which the hardware reports an error ends the process in
\* that tick: it writes no force, notifies no listener, changes no field of
\* the manager and no listener's log, and no step (no later tick) follows
\* the end of the process.
C14_ErrorTickTerminates ==
    [][/\ alive
       /\ TickFailed' =>
             /\ ~alive'
             /\ mgr' = mgr
             /\ notes' = notes
             /\ obs'.writes = << >>
             /\ obs'.events = << >>]_vars

\* the process ended in a tick that had an atom to pull towards and a
\* listener to notify, after an earlier tick
C14_Witness ==
    /\ TickFailed
    /\ ~alive
    /\ Len(molecule) > 0
    /\ Len(callbacks) > 0
    /\ nticks > 1

(***************************************************************************)
(* Listeners.                                                              *)
(***************************************************************************)
\* events is a sequence of blocks, one per event of the tick; a block is the
\* call of one listener function, with one argument, on every entry of cbs
\* in the order of cbs
DeliveredInOrder(events, cbs) ==
    LET n == Len(cbs)
    IN  IF n = 0 THEN events = << >>
        ELSE /\ Len(events) % n = 0
             /\ \A j \in 1 .. Len(events) :
                   LET i == ((j - 1) % n) + 1
                       head == events[j - (i - 1)]
                   IN  /\ events[j].reg = i
                       /\ events[j].to = cbs[i]
                       /\ events[j].ev = head.ev
                       /\ events[j].arg = head.arg
             /\ \A j, k \in 1 .. Len(events) :
                   (events[j].ev = events[k].ev /\ events[j].reg = events[k].reg)
                       => j = k

\* C15: the listener set is append-only and ordered: a step leaves callbacks
\* as it is or appends one entry (a listener already registered included),
\* none removes or reorders an entry; and every button or move event of a
\* tick is delivered to every entry of callbacks once, in the order of
\* registration.
C15_ListenersAppendOnlyInOrder ==
    [][/\ \/ callbacks' = callbacks
          \/ /\ Len(callbacks') = Len(callbacks) + 1
             /\ SubSeq(callbacks', 1, Len(callbacks)) = callbacks
       /\ TickDone' => DeliveredInOrder(obs'.events, callbacks')]_vars

\* a tick delivered two button events and a move to one listener that is
\* registered twice
C15_Witness ==
    /\ TickDone
    /\ Len(callbacks) = 2
    /\ callbacks[1] = callbacks[2]
    /\ Len(obs.events) = 6
    /\ obs.events[1].ev = "first_button_down"
    /\ obs.events[5].ev = "move"

(***************************************************************************)
(* The gradient table.                                                     *)
(***************************************************************************)
UpdateGradientDone == obs.op = "update_gradient"

Max(a, b) == IF a >= b THEN a ELSE b

\* C16: the gradient table never shrinks: no step (update_gradient,
\* clear_molecule, add_atom, update_atom, init, exit, tick) makes it shorter,
\* and update_gradient with a list of 3k values leaves it with the larger of
\* its previous length and k rows.
C16_GradientNeverShrinks ==
    [][/\ Len(gradient') >= Len(gradient)
       /\ UpdateGradientDone' =>
             Len(gradient') = Max(Len(gradient), Len(obs'.list) \div 3)]_vars

\* update_gradient with a list of one row has left a table of two rows as
\* long as it was
C16_Witness ==
    /\ UpdateGradientDone
    /\ Len(obs.list) = 3
    /\ Len(gradient) = 2

\* the vector a list of values supplies at an id, the zero vector if it
\* supplies none
SuppliedAt(list, id) ==
    IF id >= 0 /\ 3 * id + 3 <= Len(list)
    THEN << list[3 * id + 1], list[3 * id + 2], list[3 * id + 3] >>
    ELSE Zero3

\* C17: the gradient a tick uses for a selected atom is the vector that the
\* most recent completed update_gradient call supplied at the atom's id, and
\* the zero vector when that call supplied none at that id (or when no call
\* was made); a vector that only an earlier call supplied is never used.
C17_GradientIsFromLastUpdate ==
    (TickDone /\ SelectedAtomId(obs.molecule, ObsData) # 0 - 1) =>
        SelectedGradient(obs.molecule, ObsData, obs.gradients)
            = SuppliedAt(obs.pre.gradient_list,
                         SelectedAtomId(obs.molecule, ObsData))

(***************************************************************************)
(* The atom list.                                                          *)
(***************************************************************************)
UpdateAtomDone == obs.op = "update_atom"

\* C18: update_atom(a) with a.id smaller than the length of the list
\* replaces the entry whose id is a.id, leaves every other entry and the
\* length as they were, and afterwards exactly one entry has the id a.id,
\* for a list built by clear_molecule and add_atom with any ids.
C18_UpdateAtomReplacesById ==
    UpdateAtomDone =>
        /\ Len(molecule) = Len(obs.pre)
        /\ \A i \in 1 .. Len(molecule) :
              molecule[i] = IF obs.pre[i].id = obs.atom.id THEN obs.atom
                            ELSE obs.pre[i]
        /\ Cardinality({ i \in 1 .. Len(molecule) :
                            molecule[i].id = obs.atom.id }) = 1

(***************************************************************************)
(* The force ceiling.                                                      *)
(***************************************************************************)
SetForceDone == obs.op = "setForce"

Cross(a, b) ==
    << a[2] * b[3] - a[3] * b[2], a[3] * b[1] - a[1] * b[3],
       a[1] * b[2] - a[2] * b[1] >>

Dot(a, b) == a[1] * b[1] + a[2] * b[2] + a[3] * b[3]

\* the force before scaleForce, and after the stiffness alone
ObsRawForce == hduVecSubtract(Zero3, obs.atom_gradient)

ObsStiffForce == hduVecScale(ObsRawForce, AnchorStiffness, 10)

\* C19: the force scaleForce produces, and the force setForce writes, is
\* never longer than the nominal maximum continuous force; a force that is
\* longer than the ceiling after the stiffness is rescaled to exactly the
\* ceiling, in the same direction, and a force that is not is left as the
\* stiffness made it.
C19_ForceNeverExceedsCeiling ==
    SetForceDone =>
        /\ hduVecMagnitudeSq(obs.written) <= force_clamp * force_clamp
        /\ hduVecMagnitudeSq(obs.scaled) <= force_clamp * force_clamp
        /\ obs.written = IF obs.calc /\ obs.sbd THEN obs.scaled ELSE Zero3
        /\ IF hduVecMagnitudeSq(ObsStiffForce) > force_clamp * force_clamp
           THEN /\ hduVecMagnitudeSq(obs.scaled) = force_clamp * force_clamp
                /\ Cross(obs.scaled, ObsStiffForce) = Zero3
                /\ Dot(obs.scaled, ObsStiffForce) > 0
           ELSE obs.scaled = ObsStiffForce

\* a guidance force twice as long as the ceiling was written at the ceiling
C19_Witness ==
    /\ SetForceDone
    /\ obs.calc /\ obs.sbd
    /\ hduVecMagnitudeSq(ObsStiffForce) >= 4 * force_clamp * force_clamp
    /\ hduVecMagnitudeSq(obs.written) = force_clamp * force_clamp
    /\ obs.atom_pos # Zero3

(***************************************************************************)
(* The button flags.                                                       *)
(***************************************************************************)
\* C20: the flags first_button_down and second_button_down follow the button
\* edges whatever the number of listeners: after a tick with a rising edge
\* of a button its flag is true, after a tick with a falling edge it is
\* false, also when no listener is registered.
C20_ButtonFlagsFollowEdges ==
    TickDone =>
        /\ FirstButtonPressed(obs.current_buttons, obs.last_buttons)
              => first_button_down
        /\ SecondButtonPressed(obs.current_buttons, obs.last_buttons)
              => second_button_down
        /\ (/\ BitAnd(obs.current_buttons, HD_DEVICE_BUTTON_1) = 0
            /\ BitAnd(obs.last_buttons, HD_DEVICE_BUTTON_1) # 0)
              => ~first_button_down
        /\ (/\ BitAnd(obs.current_buttons, HD_DEVICE_BUTTON_2) = 0
            /\ BitAnd(obs.last_buttons, HD_DEVICE_BUTTON_2) # 0)
              => ~second_button_down

(***************************************************************************)
(* The throttle.                                                           *)
(***************************************************************************)
\* the step is a tick that ran to completion inside the throttle window
ThrottledTickStep == nticks' = nticks + 1 /\ TickDone' /\ obs'.throttled

\* C21: a throttled tick suppresses the move notification only: it writes
\* the force once when the atom list is non-empty (the force a tick outside
\* the window derives from the same state and samples), delivers every
\* button-edge notification to every listener and updates the button flags
\* as a tick outside the window does, and it delivers no move.
C21_ThrottleSuppressesOnlyMove ==
    [][ThrottledTickStep =>
          LET cur == obs'.current_buttons
              data == transformToAppCoordinates(obs'.current_position,
                          transformation_matrix, scale_factor)
          IN  /\ Len(obs'.writes) = IF Len(molecule) > 0 THEN 1 ELSE 0
              /\ obs'.writes =
                     ForceWrites(molecule, data, gradient, invert_matrix,
                                 calc_gradient_in_loop, second_button_down)
              /\ obs'.events =
                     ButtonEvents(callbacks, cur, hw_last_buttons,
                                  SelectedAtomId(molecule, data))
              /\ first_button_down' =
                     FirstButtonFlag(first_button_down, callbacks, cur,
                                     hw_last_buttons)
              /\ second_button_down' =
                     SecondButtonFlag(second_button_down, callbacks, cur,
                                      hw_last_buttons)
              /\ \A k \in 1 .. Len(obs'.events) : obs'.events[k].ev # "move"]_vars

\* a throttled tick that wrote a guidance force, delivered the release of
\* both buttons and cleared their flags
C21_Witness ==
    /\ TickDone
    /\ obs.throttled
    /\ obs.writes # << >>
    /\ obs.writes[1] # Zero3
    /\ FirstButtonReleased(obs.current_buttons, obs.last_buttons)
    /\ \E k \in 1 .. Len(obs.events) : obs.events[k].ev = "first_button_up"
    /\ \E k \in 1 .. Len(obs.events) : obs.events[k].ev = "second_button_up"
    /\ ~first_button_down
    /\ ~second_button_down

ObsGradient == SelectedGradient(obs.molecule, ObsData, obs.gradients)

\* C23: when the gradient used in a tick is the zero vector, the force
\* written in that tick is the zero vector, for every transform pair (an
\* inverse matrix with a translation column included) and whatever the
\* guidance flag and the state of button 2 are.
C23_ZeroGradientGivesZeroForce ==
    (TickDone /\ obs.writes # << >> /\ ObsGradient = Zero3)
        => obs.writes[1] = Zero3

(***************************************************************************)
(* Capture.                                                                *)
(***************************************************************************)
\* the pointer of the observed tick is within the capture threshold of some
\* atom of the snapshot
ObsSomeAtomInReach ==
    \E i \in 1 .. Len(obs.molecule) : WithinCapture(obs.molecule[i], ObsData)

\* C24: if in a tick the pointer lies within the capture threshold (3 times
\* the radius) of at least one atom of the snapshot, an atom is selected in
\* that tick (the selected id is not -1), also for atoms of differing radii.
C24_AtomInReachIsSelected ==
    (TickDone /\ ObsSomeAtomInReach)
        => SelectedAtomId(obs.molecule, ObsData) # -1

(***************************************************************************)
(* The rows update_gradient writes.                                        *)
(***************************************************************************)
\* C25: update_gradient writes only to rows the gradient table has: for
\* every table length and every list length, lengths that are no multiple
\* of 3 included, every row index it writes is smaller than the table
\* length after the growth step.
C25_UpdateGradientWritesInsideTable ==
    UpdateGradientDone => \A r \in obs.rows : r < obs.size

====
